---- MODULE Spec2Model ----
(***************************************************************************)
(* Model of the sparse_ecs component storage (src/src/component.rs).       *)
(*                                                                         *)
(* Spec runs one Storage<T>, built either with Storage::new_sparse(Capacity) *)
(* (SparseIndex::Vec) or with Storage::new_hashmap() (SparseIndex::Map).    *)
(* SpecPair runs one of each, both given the same calls.  A call that       *)
(* panics stops the execution that owns that storage: the storage stays     *)
(* as it was at the point of the panic and receives no further call.        *)
(*                                                                         *)
(* Option<X> is modelled as a set: None is {} and Some(x) is {x}.          *)
(* Rows are numbered from 0 as in the code; TLA+ sequences are indexed     *)
(* from 1, so row i of a Vec is element i + 1 of its sequence.             *)
(***************************************************************************)
EXTENDS Integers, Sequences, FiniteSets, TLC

\* ------------------------------------------------------------------ bounds

\* entity_count handed to Storage::new_sparse
Capacity == 2
\* component values are 1..MaxVal
MaxVal == 2
\* longest `added` log explored
MaxAdded == 2
\* World: spawn issues fresh ids while next_entity_id is below MaxIds
MaxIds == 2
\* World: component rows held at one time, over all stores
MaxRows == 1
\* Resources: threads sharing the container
MaxThreads == 2
\* Resources: read handles one thread holds on one resource type
MaxReads == 1
\* combine_key: usize is KeyBits bits wide
KeyBits == 5

\* entity integers used by calls: 0..Capacity-1 are inside the sparse vector,
\* Capacity is the first integer outside it
Entities == 0..Capacity
Values == 1..MaxVal
Kinds == {"Vec", "Map"}

\* closures run over iter_mut: `*data = v` and `*v += 1` (wrapping in Values)
IterFns ==
    {[x \in Values |-> v] : v \in Values} \cup {[x \in Values |-> (x % MaxVal) + 1]}

\* ------------------------------------------------------------------ Option

None == {}
Some(x) == {x}
Unwrap(o) == CHOOSE x \in o : TRUE

\* ------------------------------------------------------- outcome of a call

\* the call returned `r`, leaving the storage as `st`
Return(st, r) == [st |-> st, ret |-> r, panic |-> FALSE]
\* the call panicked, the storage being `st` at that point
Panic(st) == [st |-> st, ret |-> None, panic |-> TRUE]

\* ------------------------------------------------------------- Vec helpers

\* Vec::push
Push(vec, x) == Append(vec, x)

\* Vec::swap_remove(idx), for idx < vec.len(): the last element takes the
\* place of element idx and the vector shrinks by one
SwapRemove(vec, idx) ==
    [i \in 1..(Len(vec) - 1) |-> IF i = idx + 1 THEN vec[Len(vec)] ELSE vec[i]]

\* ------------------------------------------------------------ constructors

new_sparse(entity_count) ==
    [ kind     |-> "Vec",
      added    |-> <<>>,
      removed  |-> <<>>,
      index    |-> [e \in 0..(entity_count - 1) |-> None],
      dense    |-> <<>>,
      entities |-> <<>> ]

new_hashmap ==
    [ kind     |-> "Map",
      added    |-> <<>>,
      removed  |-> <<>>,
      index    |-> <<>>,
      dense    |-> <<>>,
      entities |-> <<>> ]

\* ------------------------------------------------------------ index access

\* `sparse[entity.0]` on the Vec index panics when entity.0 >= sparse.len()
OutOfBounds(self, entity) == self.kind = "Vec" /\ entity \notin DOMAIN self.index

\* sparse[entity.0] (Vec, in bounds) / index.get(&entity.0).copied() (Map)
Lookup(self, entity) ==
    IF self.kind = "Vec"
    THEN self.index[entity]
    ELSE IF entity \in DOMAIN self.index THEN Some(self.index[entity]) ELSE None

\* sparse[entity.0] = Some(idx) (Vec, in bounds) / index.insert(entity.0, idx) (Map)
IndexInsert(self, entity, idx) ==
    IF self.kind = "Vec"
    THEN [self.index EXCEPT ![entity] = Some(idx)]
    ELSE [e \in (DOMAIN self.index) \cup {entity} |->
            IF e = entity THEN idx ELSE self.index[e]]

\* IndexRemove with the Map arm reading the entry (index.get) and leaving it
IndexRemove_MapKeepsKey(self, entity) ==
    IF self.kind = "Vec"
    THEN [self.index EXCEPT ![entity] = None]
    ELSE self.index

\* sparse[entity.0] = None (Vec, in bounds) / index.remove(&entity.0) (Map)
IndexRemove(self, entity) ==
    IF self.kind = "Vec"
    THEN [self.index EXCEPT ![entity] = None]
    ELSE [e \in (DOMAIN self.index) \ {entity} |-> self.index[e]]

\* -------------------------------------------------------------- operations

\* add_entity without its assertions: an entity already present gets a
\* second row
add_entity_unchecked(self, data, entity) ==
    LET idx == Len(self.dense) IN
    IF OutOfBounds(self, entity) THEN Panic(self)
    ELSE Return([self EXCEPT !.index    = IndexInsert(self, entity, idx),
                             !.dense    = Push(self.dense, data),
                             !.entities = Push(self.entities, entity),
                             !.added    = Push(self.added, entity)],
                None)

\* add_entity logging an entity in `added` only the first time it is added
add_entity_logs_once(self, data, entity) ==
    LET idx == Len(self.dense) IN
    IF OutOfBounds(self, entity) THEN Panic(self)
    ELSE IF Lookup(self, entity) # None THEN Panic(self)
    ELSE Return([self EXCEPT !.index    = IndexInsert(self, entity, idx),
                             !.dense    = Push(self.dense, data),
                             !.entities = Push(self.entities, entity),
                             !.added    = IF \E i \in 1..Len(self.added) :
                                                self.added[i] = entity
                                          THEN self.added
                                          ELSE Push(self.added, entity)],
                None)

\* add_entity folding an entity at or past the capacity onto the slot
\* entity % capacity instead of failing on the out-of-bounds index
add_entity_wraps(self, data, entity) ==
    LET idx  == Len(self.dense)
        slot == IF OutOfBounds(self, entity)
                THEN entity % Cardinality(DOMAIN self.index)
                ELSE entity
    IN
    IF Lookup(self, slot) # None THEN Panic(self)
    ELSE Return([self EXCEPT !.index    = IndexInsert(self, slot, idx),
                             !.dense    = Push(self.dense, data),
                             !.entities = Push(self.entities, entity),
                             !.added    = Push(self.added, entity)],
                None)

\* Storage::add_entity
add_entity(self, data, entity) ==
    LET idx == Len(self.dense) IN
    IF OutOfBounds(self, entity) THEN Panic(self)            \* sparse[entity.0]
    ELSE IF Lookup(self, entity) # None THEN Panic(self)     \* assert_eq! / assert!
    ELSE Return([self EXCEPT !.index    = IndexInsert(self, entity, idx),
                             !.dense    = Push(self.dense, data),
                             !.entities = Push(self.entities, entity),
                             !.added    = Push(self.added, entity)],
                None)

\* set logging the entity in `added` also when it overwrites
set_logs_overwrite(self, data, entity) ==
    IF OutOfBounds(self, entity) THEN Panic(self)
    ELSE LET found == Lookup(self, entity) IN
         IF found # None
         THEN IF Unwrap(found) < Len(self.dense)
              THEN Return([self EXCEPT !.dense[Unwrap(found) + 1] = data,
                                       !.added = Push(self.added, entity)], None)
              ELSE Panic(self)
         ELSE add_entity(self, data, entity)

\* Storage::set
set(self, data, entity) ==
    IF OutOfBounds(self, entity) THEN Panic(self)            \* sparse[entity.0]
    ELSE LET found == Lookup(self, entity) IN
         IF found # None
         THEN IF Unwrap(found) < Len(self.dense)
              THEN Return([self EXCEPT !.dense[Unwrap(found) + 1] = data], None)
              ELSE Panic(self)                               \* self.dense[idx]
         ELSE add_entity(self, data, entity)

\* remove_entity without the `if idx != last` block: the moved row's index
\* entry is not re-pointed
remove_entity_no_repoint(self, entity) ==
    IF OutOfBounds(self, entity) THEN Panic(self)
    ELSE LET idx_opt == Lookup(self, entity) IN
         IF idx_opt = None THEN Return(self, None)
         ELSE
         LET idx == Unwrap(idx_opt)
             s1  == [self EXCEPT !.index = IndexRemove(self, entity)]
         IN
         IF Len(s1.dense) = 0 \/ idx >= Len(s1.entities) THEN Panic(s1)
         ELSE
         LET s2 == [s1 EXCEPT !.entities = SwapRemove(s1.entities, idx)] IN
         IF idx >= Len(s2.dense) THEN Panic(s2)
         ELSE Return([s2 EXCEPT !.dense   = SwapRemove(s2.dense, idx),
                                !.removed = Push(s2.removed, entity)],
                     Some(s2.dense[idx + 1]))

\* remove_entity without `self.entities.swap_remove(idx)`
remove_entity_keeps_entities(self, entity) ==
    IF OutOfBounds(self, entity) THEN Panic(self)
    ELSE LET idx_opt == Lookup(self, entity) IN
         IF idx_opt = None THEN Return(self, None)
         ELSE
         LET idx  == Unwrap(idx_opt)
             s1   == [self EXCEPT !.index = IndexRemove(self, entity)]
             last == Len(s1.dense) - 1
         IN
         IF Len(s1.dense) = 0 \/ idx >= Len(s1.dense) THEN Panic(s1)
         ELSE
         LET removed == s1.dense[idx + 1]
             s3      == [s1 EXCEPT !.dense = SwapRemove(s1.dense, idx)]
         IN
         IF idx # last
         THEN IF idx >= Len(s3.entities) THEN Panic(s3)
              ELSE LET moved_entity == s3.entities[idx + 1] IN
                   IF OutOfBounds(s3, moved_entity) THEN Panic(s3)
                   ELSE Return([s3 EXCEPT
                                  !.index   = IndexInsert(s3, moved_entity, idx),
                                  !.removed = Push(s3.removed, entity)],
                               Some(removed))
         ELSE Return([s3 EXCEPT !.removed = Push(s3.removed, entity)],
                     Some(removed))

\* remove_entity reading the index entry of the removed entity and leaving it
remove_entity_keeps_index(self, entity) ==
    IF OutOfBounds(self, entity) THEN Panic(self)
    ELSE LET idx_opt == Lookup(self, entity) IN
         IF idx_opt = None THEN Return(self, None)
         ELSE
         LET idx  == Unwrap(idx_opt)
             last == Len(self.dense) - 1
         IN
         IF Len(self.dense) = 0 \/ idx >= Len(self.entities) THEN Panic(self)
         ELSE
         LET s2 == [self EXCEPT !.entities = SwapRemove(self.entities, idx)] IN
         IF idx >= Len(s2.dense) THEN Panic(s2)
         ELSE
         LET removed == s2.dense[idx + 1]
             s3      == [s2 EXCEPT !.dense = SwapRemove(s2.dense, idx)]
         IN
         IF idx # last
         THEN IF idx >= Len(s3.entities) THEN Panic(s3)
              ELSE LET moved_entity == s3.entities[idx + 1] IN
                   IF OutOfBounds(s3, moved_entity) THEN Panic(s3)
                   ELSE Return([s3 EXCEPT
                                  !.index   = IndexInsert(s3, moved_entity, idx),
                                  !.removed = Push(s3.removed, entity)],
                               Some(removed))
         ELSE Return([s3 EXCEPT !.removed = Push(s3.removed, entity)],
                     Some(removed))

\* Storage::remove_entity
remove_entity(self, entity) ==
    IF OutOfBounds(self, entity) THEN Panic(self)            \* sparse[entity.0]
    ELSE LET idx_opt == Lookup(self, entity) IN
         IF idx_opt = None THEN Return(self, None)           \* the two `?`
         ELSE
         LET idx  == Unwrap(idx_opt)
             s1   == [self EXCEPT !.index = IndexRemove(self, entity)]
             last == Len(s1.dense) - 1
         IN
         \* dense.len() - 1 on an empty dense, or swap_remove past the end
         IF Len(s1.dense) = 0 \/ idx >= Len(s1.entities) THEN Panic(s1)
         ELSE
         LET s2 == [s1 EXCEPT !.entities = SwapRemove(s1.entities, idx)] IN
         IF idx >= Len(s2.dense) THEN Panic(s2)              \* dense.swap_remove
         ELSE
         LET removed == s2.dense[idx + 1]
             s3      == [s2 EXCEPT !.dense = SwapRemove(s2.dense, idx)]
         IN
         IF idx # last
         THEN IF idx >= Len(s3.entities) THEN Panic(s3)      \* self.entities[idx]
              ELSE LET moved_entity == s3.entities[idx + 1] IN
                   IF OutOfBounds(s3, moved_entity) THEN Panic(s3)
                   ELSE Return([s3 EXCEPT
                                  !.index   = IndexInsert(s3, moved_entity, idx),
                                  !.removed = Push(s3.removed, entity)],
                               Some(removed))
         ELSE Return([s3 EXCEPT !.removed = Push(s3.removed, entity)],
                     Some(removed))

\* Storage::get
get(self, entity) ==
    IF OutOfBounds(self, entity) THEN Panic(self)            \* sparse[entity.0]
    ELSE LET found == Lookup(self, entity) IN
         IF found = None THEN Return(self, None)
         ELSE IF Unwrap(found) < Len(self.dense)
              THEN Return(self, Some(self.dense[Unwrap(found) + 1]))
              ELSE Panic(self)                               \* self.dense[idx]

\* Storage::get_mut: the row the returned reference points at
get_mut(self, entity) ==
    IF OutOfBounds(self, entity) THEN Panic(self)            \* sparse[entity.0]
    ELSE LET found == Lookup(self, entity) IN
         IF found = None THEN Return(self, None)
         ELSE IF Unwrap(found) < Len(self.dense)             \* self.dense.get_mut(idx)
              THEN Return(self, found)
              ELSE Return(self, None)

\* Storage::has
has(self, entity) ==
    IF OutOfBounds(self, entity) THEN Panic(self)            \* sparse[entity.0]
    ELSE Return(self, Lookup(self, entity) # None)

\* Storage::len
len(self) == Len(self.dense)

\* Iterator::zip stops at the shorter of the two vectors
ZipLen(self) ==
    IF Len(self.entities) < Len(self.dense) THEN Len(self.entities) ELSE Len(self.dense)

\* Storage::iter: the (entity, value) pairs in row order
\* iter yielding the rows from the last one to the first
iter_newest_first(self) ==
    [i \in 1..ZipLen(self) |->
        <<self.entities[ZipLen(self) + 1 - i], self.dense[ZipLen(self) + 1 - i]>>]

iter(self) == [i \in 1..ZipLen(self) |-> <<self.entities[i], self.dense[i]>>]

\* Storage::iter_mut driven to its end by a loop that writes f[value] to every row
iter_mut(self, f) ==
    [self EXCEPT !.dense =
        [i \in 1..Len(self.dense) |->
            IF i <= ZipLen(self) THEN f[self.dense[i]] ELSE self.dense[i]]]

\* what a read of a row at or past dense.len() through the raw pointer can do
\* (undefined behaviour): 0 is a crash, any other number the value read
WildReads == 0..MaxVal

\* the same for the reads the unchecked loops make on self: there is nothing
\* to choose when no row at or past dense.len() is read
WildReadsOf(self) ==
    IF Len(self.entities) > Len(self.dense) THEN WildReads ELSE {0}

\* the row indices iter_unchecked / iter_mut_unchecked dereference
UncheckedRows(self) == 0..(Len(self.entities) - 1)

\* the pairs the unchecked iterators yield: row i pairs entities[i] with
\* whatever is at dense_ptr.add(i)
UncheckedPairs(self, wild) ==
    [i \in 1..Len(self.entities) |->
        <<self.entities[i], IF i <= Len(self.dense) THEN self.dense[i] ELSE wild>>]

\* Storage::iter_unchecked, in a build with (debug) or without debug assertions
iter_unchecked(self, debug, wild) ==
    IF debug /\ Len(self.entities) # Len(self.dense) THEN Panic(self)  \* debug_assert_eq!
    ELSE IF Len(self.entities) > Len(self.dense) /\ wild = 0 THEN Panic(self)
    ELSE Return(self, UncheckedPairs(self, wild))

\* Storage::iter_mut_unchecked driven to its end by a loop that writes f[value]
\* to every row; a write past dense.len() lands outside the vector
iter_mut_unchecked(self, f, debug, wild) ==
    IF debug /\ Len(self.entities) # Len(self.dense) THEN Panic(self)  \* debug_assert_eq!
    ELSE IF Len(self.entities) > Len(self.dense) /\ wild = 0 THEN Panic(self)
    ELSE Return([self EXCEPT !.dense =
                    [i \in 1..Len(self.dense) |->
                        IF i <= Len(self.entities) THEN f[self.dense[i]]
                        ELSE self.dense[i]]],
                UncheckedPairs(self, wild))

\* Storage::get_mut followed by `*data = v` on the returned reference; the
\* call's result is the value the reference pointed at
write_via_get_mut(self, data, entity) ==
    LET r == get_mut(self, entity) IN
    IF r.panic THEN r
    ELSE IF r.ret = None THEN Return(self, None)
    ELSE Return([self EXCEPT !.dense[Unwrap(r.ret) + 1] = data],
                Some(self.dense[Unwrap(r.ret) + 1]))


\* ------------------------------------------------------------------ tags.rs

TagNames == {"player", "enemy"}

\* EntityTags::new: no tag has a TagList
EntityTags_new == <<>>

\* EntityTags::add_tag: tags.entry(tag).or_default().add_entity(entity)
EntityTags_add_tag(tags, tag, entity) ==
    [t \in (DOMAIN tags) \cup {tag} |->
        IF t = tag
        THEN (IF t \in DOMAIN tags THEN tags[t] ELSE {}) \cup {entity}
        ELSE tags[t]]

\* remove_tag emptying the tag's list
remove_tag_clears_list(tags, tag, entity) ==
    IF tag \in DOMAIN tags
    THEN [tags EXCEPT ![tag] = {}]
    ELSE tags

\* EntityTags::remove_tag
EntityTags_remove_tag(tags, tag, entity) ==
    IF tag \in DOMAIN tags
    THEN [tags EXCEPT ![tag] = @ \ {entity}]
    ELSE tags

\* remove_all_tags skipping the tags other entities hold as well
remove_all_tags_skips_shared(tags, entity) ==
    [t \in DOMAIN tags |->
        IF tags[t] = {entity} THEN {} ELSE tags[t]]

\* EntityTags::remove_all_tags: remove_tag for every key (each call changes
\* the TagList of its own key only)
EntityTags_remove_all_tags(tags, entity) ==
    [t \in DOMAIN tags |-> EntityTags_remove_tag(tags, t, entity)[t]]

\* EntityTags::get_entities_with_tag: the entities of the tag's list, in the
\* hash set's order (kept as a set), None for a tag that has no list
EntityTags_get_entities_with_tag(tags, tag) ==
    IF tag \in DOMAIN tags THEN Some(tags[tag]) ELSE None

\* EntityTags::has_tag
EntityTags_has_tag(tags, tag, entity) ==
    IF tag \in DOMAIN tags THEN entity \in tags[tag] ELSE FALSE

\* EntityTags::count
EntityTags_count(tags, tag) ==
    IF tag \in DOMAIN tags THEN Cardinality(tags[tag]) ELSE 0

\* TagList::expect_one without the assertion on the length
expect_one_unasserted(list) ==
    IF list = {} THEN Panic(list)
    ELSE Return(list, CHOOSE e \in list : \A o \in list : e <= o)

\* TagList::expect_one: assert!(set.len() == 1), then the set's only member
TagList_expect_one(list) ==
    IF Cardinality(list) # 1 THEN Panic(list)
    ELSE Return(list, CHOOSE e \in list : TRUE)

\* EntityTags::expect_one: panics for a tag that has no list
EntityTags_expect_one(tags, tag) ==
    IF tag \in DOMAIN tags
    THEN LET out == TagList_expect_one(tags[tag]) IN
         [st |-> tags, ret |-> out.ret, panic |-> out.panic]
    ELSE Panic(tags)

\* want_one returning a member of any non-empty list
want_one_of_many(tags, tag) ==
    IF tag \in DOMAIN tags /\ tags[tag] # {}
    THEN Some(CHOOSE e \in tags[tag] : \A o \in tags[tag] : e <= o)
    ELSE None

\* EntityTags::want_one
EntityTags_want_one(tags, tag) ==
    IF tag \in DOMAIN tags /\ Cardinality(tags[tag]) = 1
    THEN Some(CHOOSE e \in tags[tag] : TRUE)
    ELSE None

\* ----------------------------------------------------------------- world.rs

\* the component types of the program using the World
Types == {"Position", "Velocity"}

\* ComponentStorageKind
StorageKinds == {"Sparse", "HashMap"}

\* the entity integers spawn can issue
Ids == 0..(MaxIds - 1)

\* SparseSet::<T>::new(size): the Component Store with the dense-array index
SparseSet_new(size) == new_sparse(size)

\* HashMapSet::<T>::new(): the Component Store with the hashmap index
HashMapSet_new == new_hashmap

\* any.downcast_ref::<SparseSet<T>>() / ::<HashMapSet<T>>() on a boxed store
Downcast(any, kind) ==
    IF any.kind = (IF kind = "Sparse" THEN "Vec" ELSE "Map") THEN Some(any) ELSE None

\* World::new
World_new(size) ==
    [ entities       |-> {},
      tags           |-> EntityTags_new,
      size           |-> size,
      map            |-> <<>>,
      dead_entities  |-> {},
      next_entity_id |-> 0 ]

\* what dead_entities.iter().next() can return: any member, in the hash set's
\* order, None for the empty set
FirstOf(ids) == IF ids = {} THEN {None} ELSE {Some(x) : x \in ids}

\* spawn issuing next_entity_id even though a dead id is there
spawn_always_fresh(self, first_dead) ==
    Return([self EXCEPT !.entities = @ \cup {self.next_entity_id},
                        !.next_entity_id = @ + 1],
           self.next_entity_id)

\* spawn reusing a dead id without taking it out of dead_entities
spawn_keeps_dead(self, first_dead) ==
    IF first_dead # None
    THEN Return([self EXCEPT !.entities = @ \cup first_dead], Unwrap(first_dead))
    ELSE Return([self EXCEPT !.entities = @ \cup {self.next_entity_id},
                             !.next_entity_id = @ + 1],
                self.next_entity_id)

\* World::spawn, first_dead being dead_entities.iter().next()
World_spawn(self, first_dead) ==
    IF first_dead # None
    THEN Return([self EXCEPT !.dead_entities = @ \ first_dead,
                             !.entities = @ \cup first_dead],
                Unwrap(first_dead))
    ELSE Return([self EXCEPT !.entities = @ \cup {self.next_entity_id},
                             !.next_entity_id = @ + 1],
                self.next_entity_id)

\* despawn that records the id as dead whether or not it was live
despawn_unchecked(self, entity) ==
    Return([self EXCEPT !.entities = @ \ {entity},
                        !.dead_entities = @ \cup {entity},
                        !.tags = EntityTags_remove_all_tags(@, entity)],
           None)

\* despawn that also removes the entity's rows from every component store
despawn_clears_components(self, entity) ==
    IF entity \in self.entities
    THEN Return([self EXCEPT !.entities = @ \ {entity},
                             !.dead_entities = @ \cup {entity},
                             !.tags = EntityTags_remove_all_tags(@, entity),
                             !.map = [T \in DOMAIN self.map |->
                                         IF OutOfBounds(self.map[T], entity)
                                         THEN self.map[T]
                                         ELSE remove_entity(self.map[T], entity).st]],
                None)
    ELSE Panic(self)

\* World::despawn
World_despawn(self, entity) ==
    IF entity \in self.entities
    THEN Return([self EXCEPT !.entities = @ \ {entity},
                             !.dead_entities = @ \cup {entity},
                             !.tags = EntityTags_remove_all_tags(@, entity)],
                None)
    ELSE Panic(self)                                          \* panic!

\* map.insert(key, Box::new(set))
MapInsert(map, key, boxed) ==
    [T \in (DOMAIN map) \cup {key} |-> IF T = key THEN boxed ELSE map[T]]

\* add replacing the store of a type that is registered
add_replaces(self, T) ==
    Return([self EXCEPT !.map = MapInsert(@, T, SparseSet_new(self.size))],
           T \notin DOMAIN self.map)

\* World::add
World_add(self, T) ==
    LET sparse == SparseSet_new(self.size) IN
    IF T \in DOMAIN self.map THEN Return(self, FALSE)
    ELSE Return([self EXCEPT !.map = MapInsert(@, T, sparse)], TRUE)

\* add_with_storage treating a registered type as a failed precondition
add_with_storage_asserts(self, T, kind) ==
    IF T \in DOMAIN self.map THEN Panic(self)
    ELSE IF kind = "Sparse"
    THEN Return([self EXCEPT !.map = MapInsert(@, T, SparseSet_new(self.size))], TRUE)
    ELSE Return([self EXCEPT !.map = MapInsert(@, T, HashMapSet_new)], TRUE)

\* World::add_with_storage
World_add_with_storage(self, T, kind) ==
    IF T \in DOMAIN self.map THEN Return(self, FALSE)
    ELSE IF kind = "Sparse"
    THEN Return([self EXCEPT !.map = MapInsert(@, T, SparseSet_new(self.size))], TRUE)
    ELSE Return([self EXCEPT !.map = MapInsert(@, T, HashMapSet_new)], TRUE)

\* get trying the SparseSet downcast only
get_sparse_only(self, T) ==
    IF T \notin DOMAIN self.map THEN None
    ELSE Downcast(self.map[T], "Sparse")

\* World::get: the store as a &dyn ComponentStore<T>
World_get(self, T) ==
    IF T \notin DOMAIN self.map THEN None                     \* map.get(..)?
    ELSE LET any == self.map[T] IN
         IF Downcast(any, "Sparse") # None THEN Downcast(any, "Sparse")
         ELSE IF Downcast(any, "HashMap") # None THEN Downcast(any, "HashMap")
         ELSE None

\* World::get_mut: the store as a &mut dyn ComponentStore<T>
World_get_mut(self, T) ==
    IF T \notin DOMAIN self.map THEN None                     \* map.get_mut(..)?
    ELSE LET any == self.map[T] IN
         IF Downcast(any, "Sparse") # None THEN Downcast(any, "Sparse")
         ELSE IF Downcast(any, "HashMap") # None THEN Downcast(any, "HashMap")
         ELSE None

\* the component types a fetch can name: those the program registers and one
\* it never registers
FetchTypes == Types \cup {"Health"}

\* the type lists of get_two_mut, get_three_mut and of FetchMut for (A, B),
\* (A, B, C); the longer ones are further expansions of the same macro
TypeLists == UNION {[1..k -> FetchTypes] : k \in {2, 3}}

\* two of the keys are the same
Overlapping(keys) == \E i, j \in DOMAIN keys : i # j /\ keys[i] = keys[j]

\* get_disjoint_mut handing out a slot once for every key naming it
get_disjoint_mut_aliasing(map, keys) ==
    Return(map, [i \in DOMAIN keys |->
                    IF keys[i] \in DOMAIN map THEN Some(map[keys[i]]) ELSE None])

\* HashMap::get_disjoint_mut(keys): panics if any keys are overlapping, else
\* one slot per key, None for a key that is not in the map
get_disjoint_mut(map, keys) ==
    IF Overlapping(keys) THEN Panic(map)
    ELSE Return(map, [i \in DOMAIN keys |->
                        IF keys[i] \in DOMAIN map THEN Some(map[keys[i]]) ELSE None])

\* impl_get_mut!: World::get_two_mut .. get_six_mut for the type list Ts
World_get_n_mut(self, Ts) ==
    LET slots == get_disjoint_mut(self.map, Ts) IN
    IF slots.panic THEN Panic(self)
    ELSE Return(self, [i \in DOMAIN Ts |->
                          IF slots.ret[i] = None THEN None
                          ELSE Downcast(Unwrap(slots.ret[i]), "Sparse")])

\* fetch registering, with the sparse kind, the types it does not find
fetch_registers_missing(self, Ts) ==
    LET filled == [T \in (DOMAIN self.map) \cup {Ts[i] : i \in DOMAIN Ts} |->
                      IF T \in DOMAIN self.map THEN self.map[T]
                      ELSE SparseSet_new(self.size)]
        got == [i \in DOMAIN Ts |-> Downcast(filled[Ts[i]], "Sparse")]
    IN
    IF Overlapping(Ts) THEN Panic(self)
    ELSE IF \E i \in DOMAIN Ts : got[i] = None THEN Return(self, None)
    ELSE Return([self EXCEPT !.map = filled],
                Some([i \in DOMAIN Ts |-> Unwrap(got[i])]))

\* FetchMut::fetch for the tuple of types Ts: Some((a?, b?, ..))
FetchMut_fetch(self, Ts) ==
    LET got == World_get_n_mut(self, Ts) IN
    IF got.panic THEN Panic(self)
    ELSE IF \E i \in DOMAIN Ts : got.ret[i] = None THEN Return(self, None)
    ELSE Return(self, Some([i \in DOMAIN Ts |-> Unwrap(got.ret[i])]))

\* if let Some(views) = <Ts>::fetch(world) { views.i.set(data, entity) }
fetch_and_set(self, Ts, i, data, entity) ==
    LET f == FetchMut_fetch(self, Ts) IN
    IF f.panic \/ f.ret = None THEN f
    ELSE LET out == set(Unwrap(f.ret)[i], data, entity) IN
         [st    |-> [f.st EXCEPT !.map[Ts[i]] = out.st],
          ret   |-> f.ret,
          panic |-> out.panic]

\* world.get_mut::<T>().unwrap().set(data, entity)
World_set_component(self, T, data, entity) ==
    LET s == World_get_mut(self, T) IN
    IF s = None THEN Panic(self)                              \* unwrap()
    ELSE LET out == set(Unwrap(s), data, entity) IN
         [st    |-> [self EXCEPT !.map[T] = out.st],
          ret   |-> out.ret,
          panic |-> out.panic]

\* ------------------------------------------------- component.rs: Entity

\* usize values are 0..UsizeRange-1
UsizeRange == 2 ^ KeyBits

\* the integers an Entity can wrap
Usizes == 0..(UsizeRange - 1)

\* x does not fit a usize
Overflows(x) == x >= UsizeRange

\* the usize a wrapping operation leaves
Wrapping(x) == x % UsizeRange

\* combine_key taking the else branch for every pair
combine_key_one_branch(self, other, debug) ==
    LET key == self + other * other IN
    IF debug /\ Overflows(key) THEN Panic(self) ELSE Return(self, Wrapping(key))

\* combine_key pairing the larger integer first
combine_key_symmetric(self, other, debug) ==
    LET a == IF self >= other THEN self ELSE other
        b == IF self >= other THEN other ELSE self
        key == a * a + a + b
    IN
    IF debug /\ Overflows(key) THEN Panic(self) ELSE Return(self, Wrapping(key))

\* the arithmetic of combine_key on a and b stays inside usize
InRange(a, b) == ~Overflows(IF a >= b THEN a * a + a + b ELSE a + b * b)

\* Entity::combine_key: if a >= b { a * a + a + b } else { a + b * b }, every
\* operation panicking on overflow in a debug build and wrapping in a release
\* build
combine_key(self, other, debug) ==
    LET a == self
        b == other
        square == IF a >= b THEN a * a ELSE b * b
        sum == IF a >= b THEN Wrapping(square) + a ELSE a + Wrapping(square)
        key == IF a >= b THEN Wrapping(sum) + b ELSE sum
    IN
    IF debug /\ (Overflows(square) \/ Overflows(sum) \/ Overflows(key))
    THEN Panic(self)
    ELSE Return(self, Wrapping(key))

\* -------------------------------------------------------------- resource.rs

\* the resource types of the program using the container
ResourceTypes == {"TestResource", "Clock"}

\* the threads sharing the container through an Arc
Threads == 1..MaxThreads

\* Resources::new
Resources_new == <<>>

\* RwLock::new(Box::new(resource)): unlocked
RwLock_new(resource) == [value |-> resource, readers |-> 0, writer |-> FALSE]

\* try_read refusing a lock that is held in any way
try_read_exclusive(lock) ==
    IF lock.writer \/ lock.readers > 0 THEN None
    ELSE Some([lock EXCEPT !.readers = @ + 1])

\* RwLock::try_read: a shared lock unless the lock is held exclusively
try_read(lock) ==
    IF lock.writer THEN None ELSE Some([lock EXCEPT !.readers = @ + 1])

\* try_write looking at the exclusive holder only
try_write_ignores_readers(lock) ==
    IF lock.writer THEN None ELSE Some([lock EXCEPT !.writer = TRUE])

\* RwLock::try_write: the exclusive lock unless the lock is held in any way
try_write(lock) ==
    IF lock.writer \/ lock.readers > 0 THEN None
    ELSE Some([lock EXCEPT !.writer = TRUE])

\* Resources::add: insert replaces the entry of the key
Resources_add(self, T, resource) ==
    [t \in (DOMAIN self) \cup {T} |->
        IF t = T THEN RwLock_new(resource) ELSE self[t]]

\* Resources::remove
Resources_remove(self, T) ==
    [t \in (DOMAIN self) \ {T} |-> self[t]]

\* Resources::get: the value read through the handle, None without a handle
Resources_get(self, T) ==
    IF T \notin DOMAIN self THEN Return(self, None)
    ELSE LET locked == try_read(self[T]) IN
         IF locked = None THEN Return(self, None)
         ELSE Return([self EXCEPT ![T] = Unwrap(locked)], Some(self[T].value))

\* Resources::get_mut
Resources_get_mut(self, T) ==
    IF T \notin DOMAIN self THEN Return(self, None)
    ELSE LET locked == try_write(self[T]) IN
         IF locked = None THEN Return(self, None)
         ELSE Return([self EXCEPT ![T] = Unwrap(locked)], Some(self[T].value))

\* drop of a ResourceHandle: the read guard releases its shared lock
drop_ResourceHandle(self, T) ==
    [self EXCEPT ![T].readers = @ - 1]

\* drop of a ResourceMutHandle leaving the lock held
drop_mut_keeps_lock(self, T) == self

\* drop of a ResourceMutHandle: the write guard releases the exclusive lock
drop_ResourceMutHandle(self, T) ==
    [self EXCEPT ![T].writer = FALSE]

\* *handle = resource through ResourceMutHandle::deref_mut
deref_mut_write(self, T, resource) ==
    [self EXCEPT ![T].value = resource]

\* ------------------------------------------------------------------- state

VARIABLES
    store,      \* store[k]: the Storage under test with index variant k
    panicked,   \* panicked[k]: a call on store[k] has panicked
    call,       \* the last call made: [op, data, entity]
    ret,        \* ret[k]: what the last call did on store[k]
    oracle,     \* oracle[k]: what the caller wrote, kept apart from the storage
    world,      \* the World
    wcall,      \* the last call made on the World
    wret,       \* what the last call on the World did
    resources,  \* the Resources container: type -> lock and value
    handles,    \* handles[th][T]: the handles thread th holds on type T
    rcall,      \* the last call made on the container: [thread, op, name]
    rret,       \* what get / get_mut returned: the value behind the handle
    written,    \* written[T]: the value the callers last stored for type T
    kcall,      \* the last combine_key call: [op, a, b, debug]
    kret        \* what the last combine_key call did

vars == <<store, panicked, call, ret, oracle, world, wcall, wret,
          resources, handles, rcall, rret, written, kcall, kret>>

storageVars == <<store, panicked, call, ret, oracle>>
worldVars == <<world, wcall, wret>>
resourceVars == <<resources, handles, rcall, rret, written>>
keyVars == <<kcall, kret>>

\* the index variants of the storages under test
Running == DOMAIN store

\* has(entity) returned true
HasTrue(st, entity) == LET h == has(st, entity) IN ~h.panic /\ h.ret

\* the calls that take an entity
EntityOps == {"add_entity", "set", "remove_entity", "get", "get_mut", "has"}

\* the entity of call c had a value in st when the call was made
Had(c, st) == c.op \in EntityOps /\ HasTrue(st, c.entity)

\* results of a call as seen by the caller; `had` tells whether the call's
\* entity had a value when the call was made
Returned(r, had) == [tag |-> "returned", had |-> had, val |-> r]
Panicked(had) == [tag |-> "panicked", had |-> had, val |-> None]
\* the execution owning the storage had already stopped
NotRun == [tag |-> "not run", had |-> FALSE, val |-> None]

\* (record fields are written in the order TLC keeps them in)
Call(op, data, entity) == [entity |-> entity, data |-> data, op |-> op]

\* what call c does on storage st
Outcome(c, st) ==
    CASE c.op = "add_entity"    -> add_entity(st, c.data, c.entity)
      [] c.op = "set"           -> set(st, c.data, c.entity)
      [] c.op = "remove_entity" -> remove_entity(st, c.entity)
      [] c.op = "get"           -> get(st, c.entity)
      [] c.op = "get_mut"       -> write_via_get_mut(st, c.data, c.entity)
      [] c.op = "has"           -> has(st, c.entity)
      [] c.op = "len"           -> Return(st, len(st))
      [] c.op = "iter"          -> Return(st, iter(st))
      [] c.op = "iter_mut"      -> Return(iter_mut(st, c.data), iter(st))

\* the caller's own record of what it wrote: value[e] is the value last
\* written for e (None once e was removed), adds / removes count the calls
\* that added or removed a row
Record(c, o, r) ==
    IF r.panic THEN o
    ELSE CASE c.op = "add_entity" ->
                [o EXCEPT !.value[c.entity] = Some(c.data), !.adds = @ + 1]
           [] c.op = "set" ->
                [o EXCEPT !.value[c.entity] = Some(c.data),
                          !.adds = IF o.value[c.entity] = None THEN @ + 1 ELSE @]
           [] c.op = "remove_entity" ->
                IF r.ret = None THEN o
                ELSE [o EXCEPT !.value[c.entity] = None, !.removes = @ + 1]
           [] c.op = "get_mut" ->
                IF r.ret = None THEN o
                ELSE [o EXCEPT !.value[c.entity] = Some(c.data)]
           [] c.op \in {"iter_mut", "iter_mut_unchecked"} ->
                [o EXCEPT !.value = [e \in Entities |-> {c.data[x] : x \in o.value[e]}]]
           [] OTHER -> o

New(k) == IF k = "Vec" THEN new_sparse(Capacity) ELSE new_hashmap

\* a call on the World: op on component type or tag `name`
WorldCall(op, name, entity) ==
    [entity |-> entity, op |-> op, name |-> name]

\* a fetch of the type list Ts, writing through view number `view` (0: none)
FetchCall(op, Ts, view, entity) ==
    [entity |-> entity, op |-> op, name |-> Ts, view |-> view]

\* the World, freshly constructed
WorldInit ==
    /\ world = World_new(Capacity)
    /\ wcall = WorldCall("new", "", 0)
    /\ wret = Returned(None, FALSE)

\* a call on the container
ResourceCall(thread, op, name) == [op |-> op, name |-> name, thread |-> thread]

\* the handles of a thread on a type: how many of each kind are live
NoHandles == [reads |-> 0, writes |-> 0]

\* the container after Resources::new, shared by threads holding no handle
ResourcesInit ==
    /\ resources = Resources_new
    /\ handles = [th \in Threads |-> [T \in ResourceTypes |-> NoHandles]]
    /\ rcall = ResourceCall(0, "new", "")
    /\ rret = None
    /\ written = [T \in ResourceTypes |-> None]

\* Entity(a).combine_key(Entity(b)) in a debug or a release build
KeyCall(op, a, b, debug) == [debug |-> debug, a |-> a, b |-> b, op |-> op]

\* no key is computed
KeyInit ==
    /\ kcall = KeyCall("none", 0, 0, FALSE)
    /\ kret = Returned(None, FALSE)

\* the storages of the variants K after construction
StoresInit(K) ==
    /\ store = [k \in K |-> New(k)]
    /\ panicked = [k \in K |-> FALSE]
    /\ call = Call("new", 0, 0)
    /\ ret = [k \in K |-> Returned(None, FALSE)]
    /\ oracle = [k \in K |->
                    [value |-> [e \in Entities |-> None], adds |-> 0, removes |-> 0]]

\* the storages of the variants K, freshly constructed
InitFor(K) ==
    /\ WorldInit
    /\ ResourcesInit
    /\ KeyInit
    /\ StoresInit(K)

\* one storage, of either variant
Init == \E k \in Kinds : InitFor({k})

\* call c is made on every storage whose execution has not stopped, outs[k]
\* being what it does on store[k]
Apply(c, outs) ==
    \E out \in {outs} :
    /\ \E k \in Running : ~panicked[k]
    /\ \A k \in Running : ~panicked[k] => Len(out[k].st.added) <= MaxAdded
    /\ store' = [k \in Running |-> IF panicked[k] THEN store[k] ELSE out[k].st]
    /\ panicked' = [k \in Running |-> panicked[k] \/ out[k].panic]
    /\ ret' = [k \in Running |->
                    IF panicked[k] THEN NotRun
                    ELSE IF out[k].panic THEN Panicked(Had(c, store[k]))
                    ELSE Returned(out[k].ret, Had(c, store[k]))]
    /\ oracle' = [k \in Running |->
                    IF panicked[k] THEN oracle[k] ELSE Record(c, oracle[k], out[k])]
    /\ UNCHANGED <<worldVars, resourceVars, keyVars>>

Do(c) == Apply(c, [k \in Running |-> Outcome(c, store[k])])

AddEntity(v, e) ==
    /\ call' = Call("add_entity", v, e)
    /\ Do(call')

Set(v, e) ==
    /\ call' = Call("set", v, e)
    /\ Do(call')

RemoveEntity(e) ==
    /\ call' = Call("remove_entity", 0, e)
    /\ Do(call')

Get(e) ==
    /\ call' = Call("get", 0, e)
    /\ Do(call')

GetMut(v, e) ==
    /\ call' = Call("get_mut", v, e)
    /\ Do(call')

Has(e) ==
    /\ call' = Call("has", 0, e)
    /\ Do(call')

LenCall ==
    /\ call' = Call("len", 0, 0)
    /\ Do(call')

Iter ==
    /\ call' = Call("iter", 0, 0)
    /\ Do(call')

IterMut(f) ==
    /\ call' = Call("iter_mut", f, 0)
    /\ Do(call')

\* the call is made in a build with or without debug assertions, and a read
\* past dense.len() does any of the things in WildReads
IterUnchecked ==
    /\ call' = Call("iter_unchecked", 0, 0)
    /\ \E out \in {[k \in Running |-> iter_unchecked(store[k], debug, wild)] :
                        debug \in BOOLEAN,
                        wild \in UNION {WildReadsOf(store[k]) : k \in Running}} :
          Apply(call', out)

IterMutUnchecked(f) ==
    /\ call' = Call("iter_mut_unchecked", f, 0)
    /\ \E out \in {[k \in Running |-> iter_mut_unchecked(store[k], f, debug, wild)] :
                        debug \in BOOLEAN,
                        wild \in UNION {WildReadsOf(store[k]) : k \in Running}} :
          Apply(call', out)

\* the calls a caller can make with entity integers drawn from E
NextOver(E) ==
    \/ \E v \in Values, e \in E : AddEntity(v, e)
    \/ \E v \in Values, e \in E : Set(v, e)
    \/ \E e \in E : RemoveEntity(e)
    \/ \E e \in E : Get(e)
    \/ \E v \in Values, e \in E : GetMut(v, e)
    \/ \E e \in E : Has(e)
    \/ LenCall
    \/ Iter
    \/ \E f \in IterFns : IterMut(f)
    \/ IterUnchecked
    \/ \E f \in IterFns : IterMutUnchecked(f)

Next == NextOver(Entities)

Spec == Init /\ [][Next]_vars

\* both variants, given the same calls, all with entity integers below the
\* capacity of the sparse vector
InitPair == InitFor(Kinds)
NextPair == NextOver(0..(Capacity - 1))
SpecPair == InitPair /\ [][NextPair]_vars

\* -------------------------------------------------------- World transitions

\* component rows the World holds, over all stores
RowCount(w) ==
    Cardinality({x \in (DOMAIN w.map) \X Entities : HasTrue(w.map[x[1]], x[2])})

\* the entity of call c held a tag or a component row in w when the call
\* was made
WorldHad(c, w) ==
    \/ \E t \in TagNames : EntityTags_has_tag(w.tags, t, c.entity)
    \/ \E T \in DOMAIN w.map : HasTrue(w.map[T], c.entity)

\* call c on the World left it as outs.st, unless the execution had stopped
\* in a panic before
WorldApply(c, outs) ==
    \E out \in {outs} :
    /\ wret.tag # "panicked"
    /\ RowCount(out.st) <= MaxRows
    /\ world' = out.st
    /\ wret' = IF out.panic THEN Panicked(WorldHad(c, world))
               ELSE Returned(out.ret, WorldHad(c, world))
    /\ UNCHANGED <<storageVars, resourceVars, keyVars>>

Spawn(first_dead) ==
    /\ wcall' = WorldCall("spawn", "", 0)
    /\ first_dead \in FirstOf(world.dead_entities)
    /\ first_dead = None => world.next_entity_id < MaxIds
    /\ WorldApply(wcall', World_spawn(world, first_dead))

Despawn(e) ==
    /\ wcall' = WorldCall("despawn", "", e)
    /\ WorldApply(wcall', World_despawn(world, e))

Add(T) ==
    /\ wcall' = WorldCall("add", T, 0)
    /\ WorldApply(wcall', World_add(world, T))

AddWithStorage(T, kind) ==
    /\ wcall' = WorldCall("add_with_storage", T, 0)
    /\ WorldApply(wcall', World_add_with_storage(world, T, kind))

WorldGet(T) ==
    /\ wcall' = WorldCall("get", T, 0)
    /\ WorldApply(wcall', Return(world, World_get(world, T)))

\* the entity written is one spawn has issued
SetComponent(T, v, e) ==
    /\ wcall' = WorldCall("set", T, e)
    /\ e \in world.entities \cup world.dead_entities
    /\ WorldApply(wcall', World_set_component(world, T, v, e))

\* a component is written for an entity that is live when it is written
SetLiveComponent(T, v, e) ==
    /\ wcall' = WorldCall("set", T, e)
    /\ e \in world.entities
    /\ WorldApply(wcall', World_set_component(world, T, v, e))

\* world.tags.expect_one(t)
ExpectOne(t) ==
    /\ wcall' = WorldCall("expect_one", t, 0)
    /\ \E out \in {EntityTags_expect_one(world.tags, t)} :
          WorldApply(wcall', [st |-> world, ret |-> out.ret, panic |-> out.panic])

\* world.tags.want_one(t)
WantOne(t) ==
    /\ wcall' = WorldCall("want_one", t, 0)
    /\ WorldApply(wcall', Return(world, EntityTags_want_one(world.tags, t)))

Fetch(Ts) ==
    /\ wcall' = FetchCall("fetch", Ts, 0, 0)
    /\ WorldApply(wcall', FetchMut_fetch(world, Ts))

FetchSet(Ts, i, v, e) ==
    /\ wcall' = FetchCall("fetch_set", Ts, i, e)
    /\ i \in DOMAIN Ts
    /\ WorldApply(wcall', fetch_and_set(world, Ts, i, v, e))

AddTag(t, e) ==
    /\ wcall' = WorldCall("add_tag", t, e)
    /\ WorldApply(wcall', Return([world EXCEPT !.tags = EntityTags_add_tag(@, t, e)], None))

RemoveTag(t, e) ==
    /\ wcall' = WorldCall("remove_tag", t, e)
    /\ WorldApply(wcall', Return([world EXCEPT !.tags = EntityTags_remove_tag(@, t, e)], None))

\* the allocator and the tag index
NextWorld ==
    \/ \E first_dead \in FirstOf(Ids) \cup {None} : Spawn(first_dead)
    \/ \E e \in Ids : Despawn(e)
    \/ \E t \in TagNames, e \in Ids : AddTag(t, e)
    \/ \E t \in TagNames, e \in Ids : RemoveTag(t, e)
    \/ \E t \in TagNames : ExpectOne(t)
    \/ \E t \in TagNames : WantOne(t)

\* the allocator and the component registry
NextRegistry ==
    \/ \E first_dead \in FirstOf(Ids) \cup {None} : Spawn(first_dead)
    \/ \E e \in Ids : Despawn(e)
    \/ \E T \in Types : Add(T)
    \/ \E T \in Types, kind \in StorageKinds : AddWithStorage(T, kind)
    \/ \E T \in Types : WorldGet(T)
    \/ \E T \in Types, v \in Values, e \in Ids : SetComponent(T, v, e)

\* the allocator and the registry in the runs that write components for live
\* entities only
NextLive ==
    \/ \E first_dead \in FirstOf(Ids) \cup {None} : Spawn(first_dead)
    \/ \E e \in Ids : Despawn(e)
    \/ \E T \in Types, kind \in StorageKinds : AddWithStorage(T, kind)
    \/ \E T \in Types, v \in Values, e \in Ids : SetLiveComponent(T, v, e)

\* the component registry and the multi-store fetches; the stores are written
\* through the views that a fetch of two types returns
NextFetch ==
    \/ \E T \in Types, kind \in StorageKinds : AddWithStorage(T, kind)
    \/ \E Ts \in TypeLists : Fetch(Ts)
    \/ \E Ts \in [1..2 -> FetchTypes], i \in 1..2, v \in Values, e \in Ids :
          FetchSet(Ts, i, v, e)

\* no handle borrows the container: `&mut self` can be taken
Unborrowed ==
    \A th \in Threads, T \in ResourceTypes : handles[th][T] = NoHandles

\* resources.add(v) for type T, by the container's owner
ResAdd(T, v) ==
    /\ rcall' = ResourceCall(0, "add", T)
    /\ Unborrowed
    /\ resources' = Resources_add(resources, T, v)
    /\ rret' = None
    /\ written' = [written EXCEPT ![T] = Some(v)]
    /\ UNCHANGED <<handles, storageVars, worldVars, keyVars>>

\* resources.remove::<T>(), by the container's owner
ResRemove(T) ==
    /\ rcall' = ResourceCall(0, "remove", T)
    /\ Unborrowed
    /\ resources' = Resources_remove(resources, T)
    /\ rret' = None
    /\ written' = [written EXCEPT ![T] = None]
    /\ UNCHANGED <<handles, storageVars, worldVars, keyVars>>

\* thread th calls get::<T>() and keeps the handle it is given
ResGet(th, T) ==
    /\ rcall' = ResourceCall(th, "get", T)
    /\ handles[th][T].reads < MaxReads
    /\ \E out \in {Resources_get(resources, T)} :
          /\ resources' = out.st
          /\ rret' = out.ret
          /\ handles' = IF out.ret = None THEN handles
                        ELSE [handles EXCEPT ![th][T].reads = @ + 1]
    /\ UNCHANGED <<written, storageVars, worldVars, keyVars>>

\* thread th calls get_mut::<T>() and keeps the handle it is given
ResGetMut(th, T) ==
    /\ rcall' = ResourceCall(th, "get_mut", T)
    /\ \E out \in {Resources_get_mut(resources, T)} :
          /\ resources' = out.st
          /\ rret' = out.ret
          /\ handles' = IF out.ret = None THEN handles
                        ELSE [handles EXCEPT ![th][T].writes = @ + 1]
    /\ UNCHANGED <<written, storageVars, worldVars, keyVars>>

\* thread th drops a ResourceHandle of type T
DropHandle(th, T) ==
    /\ rcall' = ResourceCall(th, "drop", T)
    /\ handles[th][T].reads > 0
    /\ resources' = drop_ResourceHandle(resources, T)
    /\ handles' = [handles EXCEPT ![th][T].reads = @ - 1]
    /\ rret' = None
    /\ UNCHANGED <<written, storageVars, worldVars, keyVars>>

\* thread th drops a ResourceMutHandle of type T
DropMutHandle(th, T) ==
    /\ rcall' = ResourceCall(th, "drop_mut", T)
    /\ handles[th][T].writes > 0
    /\ resources' = drop_ResourceMutHandle(resources, T)
    /\ handles' = [handles EXCEPT ![th][T].writes = @ - 1]
    /\ rret' = None
    /\ UNCHANGED <<written, storageVars, worldVars, keyVars>>

\* thread th writes v through a ResourceMutHandle of type T
WriteHandle(th, T, v) ==
    /\ rcall' = ResourceCall(th, "write", T)
    /\ handles[th][T].writes > 0
    /\ resources' = deref_mut_write(resources, T, v)
    /\ rret' = None
    /\ written' = [written EXCEPT ![T] = Some(v)]
    /\ UNCHANGED <<handles, storageVars, worldVars, keyVars>>

\* the threads' calls on the shared container, in any interleaving
NextResources ==
    \/ \E T \in ResourceTypes, v \in Values : ResAdd(T, v)
    \/ \E T \in ResourceTypes : ResRemove(T)
    \/ \E th \in Threads, T \in ResourceTypes : ResGet(th, T)
    \/ \E th \in Threads, T \in ResourceTypes : ResGetMut(th, T)
    \/ \E th \in Threads, T \in ResourceTypes : DropHandle(th, T)
    \/ \E th \in Threads, T \in ResourceTypes : DropMutHandle(th, T)
    \/ \E th \in Threads, T \in ResourceTypes, v \in Values : WriteHandle(th, T, v)

\* the call c of combine_key came out as out, unless the execution had
\* stopped in a panic before
KeyApply(c, outs) ==
    \E out \in {outs} :
    /\ kret.tag # "panicked"
    /\ kret' = IF out.panic THEN Panicked(FALSE) ELSE Returned(out.ret, FALSE)
    /\ UNCHANGED <<storageVars, worldVars, resourceVars>>

\* Entity(a).combine_key(Entity(b)) on the two entities at hand
CombineKey ==
    /\ kcall.op = "entities"
    /\ kcall' = KeyCall("combine_key", kcall.a, kcall.b, kcall.debug)
    /\ KeyApply(kcall', combine_key(kcall.a, kcall.b, kcall.debug))

\* Entity(k).combine_key(Entity(a)) for the key k that combine_key(a, b) has
\* returned, in the same build
RePair ==
    /\ kcall.op = "combine_key"
    /\ kret.tag = "returned"
    /\ kcall' = KeyCall("re_pair", kret.val, kcall.a, kcall.debug)
    /\ KeyApply(kcall', combine_key(kret.val, kcall.a, kcall.debug))

\* combine_key on the two entities, then on the key it returned
NextKey ==
    \/ CombineKey
    \/ RePair

\* any two entities, in a debug or a release build
InitKey ==
    /\ WorldInit
    /\ ResourcesInit
    /\ StoresInit(Kinds)
    /\ \E a, b \in Usizes, debug \in BOOLEAN : kcall = KeyCall("entities", a, b, debug)
    /\ kret = Returned(None, FALSE)

\* the World alone; the storages under test stay as constructed
InitWorld == InitFor(Kinds)
SpecWorld == InitWorld /\ [][NextWorld]_vars
SpecRegistry == InitWorld /\ [][NextRegistry]_vars
SpecFetch == InitWorld /\ [][NextFetch]_vars
SpecLive == InitWorld /\ [][NextLive]_vars
SpecResources == InitWorld /\ [][NextResources]_vars
SpecKey == InitKey /\ [][NextKey]_vars

\* a handle is a guard that is dropped when its scope ends, and no call made
\* while it is held blocks: every handle that is held is dropped eventually
DropsHappen ==
    \A th \in Threads, T \in ResourceTypes :
        /\ WF_vars(DropHandle(th, T))
        /\ WF_vars(DropMutHandle(th, T))

SpecResourcesFair == SpecResources /\ DropsHappen

\* ---------------------------------------------------------------- helpers

IsPrefix(a, b) == Len(a) <= Len(b) /\ \A i \in 1..Len(a) : a[i] = b[i]

\* what a caller can observe of entity e through has and get
Observe(st, e) ==
    LET h == has(st, e)
        g == get(st, e)
    IN <<h.panic, h.ret, g.panic, g.ret>>

\* ----------------------------------------------------------------- claims

\* C1: after any sequence of add_entity / set / remove_entity calls and writes
\* through get_mut or iter_mut, has(e) is true exactly when the last successful
\* add/set of e was not followed by a successful remove_entity(e), and for
\* every such e get(e) returns the value most recently written for e.
C1_GetReturnsLastWritten ==
    \A k \in Running : \A e \in Entities :
        /\ HasTrue(store[k], e) <=> oracle[k].value[e] # None
        /\ HasTrue(store[k], e) =>
              /\ ~get(store[k], e).panic
              /\ get(store[k], e).ret = oracle[k].value[e]

\* a row was removed and the rows that stayed were then rewritten by iter_mut
C1_Witness ==
    \E k \in Running : \E e \in Entities :
        /\ call.op = "iter_mut"
        /\ ret[k].tag = "returned"
        /\ Len(store[k].removed) > 0
        /\ HasTrue(store[k], e)
        /\ get(store[k], e).ret = oracle[k].value[e]

\* C2: in every reachable state, including the state a failed call leaves,
\* dense and entities have the same length.
C2_DenseEntitiesSameLength ==
    \A k \in Running : Len(store[k].dense) = Len(store[k].entities)

\* a non-last row was removed from a storage that still holds a row
C2_Witness ==
    \E k \in Running :
        /\ call.op = "remove_entity"
        /\ ret[k].tag = "returned" /\ ret[k].val # None
        /\ Len(store[k].dense) = 1 /\ Len(store[k].entities) = 1
        /\ Len(store[k].added) = 2 /\ store[k].added[1] = call.entity

\* C3: the index and the entities array agree: row i's entity is mapped to i,
\* and every index entry points at a row below len that holds its entity.
C3_IndexConsistent ==
    \A k \in Running :
        LET st == store[k] IN
        /\ \A i \in 1..Len(st.entities) :
              /\ ~OutOfBounds(st, st.entities[i])
              /\ Lookup(st, st.entities[i]) = Some(i - 1)
        /\ \A e \in DOMAIN st.index :
              Lookup(st, e) # None =>
                 /\ Unwrap(Lookup(st, e)) < Len(st.dense)
                 /\ Unwrap(Lookup(st, e)) < Len(st.entities)
                 /\ st.entities[Unwrap(Lookup(st, e)) + 1] = e

\* the last row was moved into the slot of a removed row
C3_Witness ==
    \E k \in Running :
        /\ call.op = "remove_entity"
        /\ ret[k].tag = "returned" /\ ret[k].val # None
        /\ Len(store[k].added) = 2 /\ store[k].added[1] = call.entity
        /\ Len(store[k].entities) = 1
        /\ store[k].entities[1] = store[k].added[2]
        /\ Lookup(store[k], store[k].entities[1]) = Some(0)

\* C4: remove_entity(e) on a present e leaves has(x) and get(x) as they were
\* for every other entity x, the entity of the moved row included, and makes
\* has(e) false and get(e) None.
C4_RemoveFrame ==
    [][\A k \in Running :
          (call'.op = "remove_entity" /\ ~panicked[k] /\ HasTrue(store[k], call'.entity))
          => /\ ~panicked'[k]
             /\ \A x \in Entities \ {call'.entity} :
                   Observe(store'[k], x) = Observe(store[k], x)
             /\ has(store'[k], call'.entity) = Return(store'[k], FALSE)
             /\ get(store'[k], call'.entity) = Return(store'[k], None)]_vars

\* the first of two rows was removed and the entity of the moved row still
\* reads its value
C4_Witness ==
    \E k \in Running :
        /\ call.op = "remove_entity"
        /\ ret[k].had /\ ret[k].tag = "returned"
        /\ Len(store[k].added) = 2 /\ store[k].added[1] = call.entity
        /\ store[k].added[2] # call.entity
        /\ HasTrue(store[k], store[k].added[2])
        /\ get(store[k], store[k].added[2]).ret = oracle[k].value[store[k].added[2]]
        /\ ~HasTrue(store[k], call.entity)

\* C5: add_entity(v, e) when e already has a value panics, in both variants,
\* and at that point the storage is exactly as before the call.
C5_AddPresentPanics ==
    [][\A k \in Running :
          (call'.op = "add_entity" /\ ~panicked[k] /\ HasTrue(store[k], call'.entity))
          => /\ panicked'[k]
             /\ store'[k] = store[k]]_vars

\* add_entity has panicked on an entity that has a value, which it still has
C5_Witness ==
    \E k \in Running :
        /\ call.op = "add_entity"
        /\ ret[k].tag = "panicked" /\ ret[k].had
        /\ panicked[k]
        /\ HasTrue(store[k], call.entity)
        /\ get(store[k], call.entity).ret = oracle[k].value[call.entity]

\* C6: when add_entity(v, e) returns on a storage in which e was absent, a
\* remove_entity(e) made next returns Some(v) and a second one returns None,
\* and after either the entities present and their values are those before the
\* add.  (On the sparse variant add_entity panics for e >= Capacity and no
\* remove follows.)
C6_AddRemoveRoundTrip ==
    [][\A k \in Running :
          (call'.op = "add_entity" /\ ~panicked[k] /\ ~panicked'[k])
          => \A r1 \in {remove_entity(store'[k], call'.entity)} :
             \A r2 \in {remove_entity(r1.st, call'.entity)} :
                /\ ~HasTrue(store[k], call'.entity)
                /\ ~r1.panic /\ r1.ret = Some(call'.data)
                /\ ~r2.panic /\ r2.ret = None
                /\ \A x \in Entities :
                      \A before \in {Observe(store[k], x)} :
                         /\ Observe(r1.st, x) = before
                         /\ Observe(r2.st, x) = before]_vars

\* the entity added last was removed, and a second remove_entity of it has
\* returned None on a storage that holds another row
C6_Witness ==
    \E k \in Running :
        /\ call.op = "remove_entity"
        /\ ret[k] = Returned(None, FALSE)
        /\ Len(store[k].added) = 2 /\ store[k].added[2] = call.entity
        /\ Len(store[k].removed) = 1 /\ store[k].removed[1] = call.entity
        /\ Len(store[k].entities) = 1

\* C7: set(v, e) on a present e changes only e's value, in its row: len, row
\* order, index, added and removed stay; on an absent e it leaves the state
\* add_entity(v, e) leaves: a row appended, the index recorded, e appended to
\* added.
C7_SetOverwritesOrAdds ==
    [][\A k \in Running :
          (call'.op = "set" /\ ~panicked[k])
          => LET st == store[k]
                 e  == call'.entity
                 v  == call'.data
                 a  == add_entity(st, v, e)
             IN IF HasTrue(st, e)
                THEN /\ ~panicked'[k]
                     /\ store'[k] =
                          [st EXCEPT !.dense =
                              [i \in 1..Len(st.dense) |->
                                  IF st.entities[i] = e THEN v ELSE st.dense[i]]]
                ELSE /\ store'[k] = a.st
                     /\ panicked'[k] = a.panic
                     /\ ~panicked'[k] =>
                          /\ store'[k].dense = Append(st.dense, v)
                          /\ store'[k].entities = Append(st.entities, e)
                          /\ store'[k].added = Append(st.added, e)
                          /\ store'[k].removed = st.removed
                          /\ Lookup(store'[k], e) = Some(Len(st.dense))]_vars

\* set has overwritten the value of the first of two rows
C7_Witness ==
    \E k \in Running :
        /\ call.op = "set"
        /\ ret[k].tag = "returned" /\ ret[k].had
        /\ Len(store[k].entities) = 2 /\ store[k].entities[1] = call.entity
        /\ store[k].dense[1] = call.data /\ store[k].dense[2] # call.data
        /\ Len(store[k].added) = 2

\* C8: added and removed only grow by appending; added.len() is the number of
\* successful adds (add_entity, or set on an absent entity), removed.len()
\* the number of remove_entity calls that returned Some; a remove_entity that
\* returns None appends nothing; adding an entity again after its removal
\* appends it to added again.
C8_LogsAppendOnly ==
    [][\A k \in Running :
          /\ IsPrefix(store[k].added, store'[k].added)
          /\ IsPrefix(store[k].removed, store'[k].removed)
          /\ Len(store'[k].added) = oracle'[k].adds
          /\ Len(store'[k].removed) = oracle'[k].removes
          /\ (call'.op = "remove_entity" /\ ret'[k] = Returned(None, FALSE))
                => store'[k].removed = store[k].removed
          /\ (call'.op = "remove_entity" /\ ret'[k].tag = "returned" /\ ret'[k].val # None)
                => store'[k].removed = Append(store[k].removed, call'.entity)
          /\ (call'.op \in {"add_entity", "set"} /\ ret'[k].tag = "returned"
                /\ ~ret'[k].had)
                => store'[k].added = Append(store[k].added, call'.entity)]_vars

\* an entity was added, removed and added again: it is in added twice
C8_Witness ==
    \E k \in Running :
        /\ call.op \in {"add_entity", "set"}
        /\ ret[k].tag = "returned" /\ ~ret[k].had
        /\ store[k].added = <<call.entity, call.entity>>
        /\ store[k].removed = <<call.entity>>

\* C9: given the same calls, all with entity integers below Capacity, the
\* sparse and the hashmap storage return the same result for every call (the
\* same panics too) and end with the same iteration sequence, added log and
\* removed log.
C9_VariantsEquivalent ==
    /\ ret["Vec"] = ret["Map"]
    /\ panicked["Vec"] = panicked["Map"]
    /\ len(store["Vec"]) = len(store["Map"])
    /\ iter(store["Vec"]) = iter(store["Map"])
    /\ store["Vec"].added = store["Map"].added
    /\ store["Vec"].removed = store["Map"].removed

\* both variants have removed the first of two rows and returned its value
C9_Witness ==
    /\ Running = Kinds
    /\ call.op = "remove_entity"
    /\ \A k \in Kinds :
          /\ ret[k].tag = "returned" /\ ret[k].val # None
          /\ Len(store[k].added) = 2 /\ store[k].added[1] = call.entity
          /\ Len(store[k].entities) = 1

\* C10 as stated: for every entity integer without a value, in both variants,
\* get, get_mut and remove_entity return None and has returns false, none of
\* them panics and none changes the storage.
C10_AbsentLookupsReturnNone ==
    [][\A k \in Running :
          (call'.op \in {"remove_entity", "get", "get_mut", "has"}
             /\ ~panicked[k] /\ oracle[k].value[call'.entity] = None)
          => /\ ~panicked'[k]
             /\ ret'[k].tag = "returned"
             /\ ret'[k].val = (IF call'.op = "has" THEN FALSE ELSE None)
             /\ store'[k] = store[k]]_vars

\* C11: on a storage built by new_sparse(N), add_entity or set for an entity
\* whose integer is N or more fails (the execution stops), and at the failure
\* dense, entities, index, added and removed are what they were before the
\* call: the integer is never folded onto another entity's slot.
C11_SparseOutOfCapacityPanics ==
    [][\A k \in Running :
          (/\ call'.op \in {"add_entity", "set"}
           /\ ~panicked[k]
           /\ store[k].kind = "Vec"
           /\ call'.entity >= Capacity)
          => /\ panicked'[k]
             /\ ret'[k].tag = "panicked"
             /\ store'[k] = store[k]]_vars

\* an add_entity at the capacity has failed on a sparse storage holding a row
C11_Witness ==
    \E k \in Running :
        /\ store[k].kind = "Vec"
        /\ call.op = "add_entity"
        /\ call.entity = Capacity
        /\ ret[k].tag = "panicked"
        /\ Len(store[k].dense) >= 1
        /\ Lookup(store[k], 0) = None

\* what iter() yields on st is one pair per present entity, with its value
IterIsContent(st) ==
    LET it == iter(st) IN
    /\ Len(it) = len(st)
    /\ \A i \in 1..Len(it) :
          /\ HasTrue(st, it[i][1])
          /\ get(st, it[i][1]) = Return(st, Some(it[i][2]))
    /\ \A e \in Entities :
          Cardinality({i \in 1..Len(it) : it[i][1] = e})
              = IF HasTrue(st, e) THEN 1 ELSE 0

C13_UncheckedIterMatchesChecked ==
    \A k \in Running :
        ~panicked[k] =>
            LET st == store[k] IN
            /\ UncheckedRows(st) \subseteq 0..(Len(st.dense) - 1)
            /\ \A debug \in BOOLEAN, wild \in WildReads :
                  /\ iter_unchecked(st, debug, wild) = Return(st, iter(st))
                  /\ \A f \in IterFns :
                        iter_mut_unchecked(st, f, debug, wild)
                            = Return(iter_mut(st, f), iter(st))
            /\ call.op = "iter_unchecked"
                  => ret[k] = Returned(iter(st), FALSE)
            /\ call.op = "iter_mut_unchecked"
                  => /\ ret[k].tag = "returned"
                     /\ [i \in 1..Len(ret[k].val) |-> ret[k].val[i][1]] = st.entities
                     /\ \A i \in 1..Len(st.dense) :
                           st.dense[i] = call.data[ret[k].val[i][2]]

\* iter_mut_unchecked has visited both rows of a storage, in row order, and
\* rewritten the first
C13_Witness ==
    \E k \in Running :
        /\ call.op = "iter_mut_unchecked"
        /\ ret[k].tag = "returned"
        /\ Len(ret[k].val) = 2
        /\ ret[k].val[1][1] = store[k].added[1]
        /\ ret[k].val[2][1] = store[k].added[2]
        /\ ret[k].val[1][2] # ret[k].val[2][2]
        /\ store[k].dense[1] # ret[k].val[1][2]

\* C14: spawn never returns an entity whose integer is live when the call is
\* made; the entity it returns is live afterwards and the live set grows by
\* exactly that one integer, so all live entities have distinct integers.
C14_SpawnReturnsNonLive ==
    [][(wcall'.op = "spawn" /\ wret'.tag = "returned")
          => /\ wret'.val \notin world.entities
             /\ world'.entities = world.entities \cup {wret'.val}
             /\ Cardinality(world'.entities) = Cardinality(world.entities) + 1
             /\ world'.entities \cap world'.dead_entities = {}]_vars

\* spawn has returned a recycled integer while another entity was live
C14_Witness ==
    /\ wcall.op = "spawn"
    /\ wret.tag = "returned"
    /\ wret.val < world.next_entity_id - 1
    /\ Cardinality(world.entities) = 2

\* C15: spawn reuses before it allocates: with a non-empty dead set it returns
\* one of its members, removes it from the dead set and leaves next_entity_id
\* alone; only with an empty dead set does it return next_entity_id and
\* increment it by exactly one. So after spawn A, spawn B, despawn A the next
\* spawn returns A.
C15_SpawnReusesBeforeAllocating ==
    [][(wcall'.op = "spawn")
          => /\ wret'.tag = "returned"
             /\ IF world.dead_entities # {}
                THEN /\ wret'.val \in world.dead_entities
                     /\ world'.dead_entities = world.dead_entities \ {wret'.val}
                     /\ world'.next_entity_id = world.next_entity_id
                ELSE /\ wret'.val = world.next_entity_id
                     /\ world'.next_entity_id = world.next_entity_id + 1
                     /\ world'.dead_entities = {}
             /\ (world.dead_entities = {0} /\ world.entities = {1})
                   => wret'.val = 0]_vars

\* spawn A, spawn B, despawn A, spawn C has returned C = A = Entity(0)
C15_Witness ==
    /\ wcall.op = "spawn"
    /\ wret.tag = "returned"
    /\ wret.val = 0
    /\ world.entities = {0, 1}
    /\ world.dead_entities = {}
    /\ world.next_entity_id = 2

\* C16: despawn(e) of an entity that is not live fails (the execution stops)
\* with the live set, the dead set, next_entity_id and every tag set as they
\* were; despawn of a live e returns and moves e from the live set to the dead
\* set.
C16_DespawnNonLivePanics ==
    [][(wcall'.op = "despawn")
          => LET e == wcall'.entity IN
             IF e \notin world.entities
             THEN /\ wret'.tag = "panicked"
                  /\ world'.entities = world.entities
                  /\ world'.dead_entities = world.dead_entities
                  /\ world'.next_entity_id = world.next_entity_id
                  /\ world'.tags = world.tags
             ELSE /\ wret'.tag = "returned"
                  /\ world'.entities = world.entities \ {e}
                  /\ world'.dead_entities = world.dead_entities \cup {e}
                  /\ world'.next_entity_id = world.next_entity_id]_vars

\* despawn of a dead entity that holds a tag has failed, another entity being
\* live
C16_Witness ==
    /\ wcall.op = "despawn"
    /\ wret.tag = "panicked"
    /\ wcall.entity \in world.dead_entities
    /\ \E t \in TagNames : EntityTags_has_tag(world.tags, t, wcall.entity)
    /\ world.entities # {}

\* C17: right after a despawn(e) that returned, has_tag(t, e) is false for
\* every tag t and e is in no get_entities_with_tag result; the tag
\* memberships of every other entity are what they were.
C17_DespawnRemovesAllTags ==
    [][(wcall'.op = "despawn" /\ wret'.tag = "returned")
          => LET e == wcall'.entity IN
             \A t \in TagNames :
                /\ ~EntityTags_has_tag(world'.tags, t, e)
                /\ \A found \in EntityTags_get_entities_with_tag(world'.tags, t) :
                      e \notin found
                /\ \A o \in Ids \ {e} :
                      EntityTags_has_tag(world'.tags, t, o)
                          = EntityTags_has_tag(world.tags, t, o)
                /\ (t \in DOMAIN world'.tags) = (t \in DOMAIN world.tags)]_vars

\* despawn has returned for an entity that held a tag, leaving another
\* entity's tag in place
C17_Witness ==
    /\ wcall.op = "despawn"
    /\ wret.tag = "returned" /\ wret.had
    /\ \E t \in DOMAIN world.tags : \E o \in world.tags[t] : o # wcall.entity
    /\ \E t \in DOMAIN world.tags : world.tags[t] = {}

\* what a caller can observe of the store of type T: has and get of every
\* entity, len, the rows in order, the added and removed logs
ObserveStore(w, T) ==
    LET found == World_get(w, T) IN
    IF found = None THEN <<>>
    ELSE LET st == Unwrap(found) IN
         <<[e \in Ids |-> Observe(st, e)], len(st), iter(st), st.added, st.removed>>

AddOps == {"add", "add_with_storage"}

\* C19: add / add_with_storage for a type that is registered returns false
\* and changes nothing, whichever kind is asked for: get and get_mut still
\* return the store that was there, with its rows, values, index kind and
\* logs. The first registration of a type returns true.
C19_DoubleRegistrationNoEffect ==
    [][(wcall'.op \in AddOps)
          => LET T == wcall'.name IN
             /\ wret'.tag = "returned"
             /\ IF T \in DOMAIN world.map
                THEN /\ wret'.val = FALSE
                     /\ world' = world
                     /\ World_get(world', T) = Some(world.map[T])
                     /\ World_get_mut(world', T) = Some(world.map[T])
                ELSE /\ wret'.val = TRUE
                     /\ T \in DOMAIN world'.map]_vars

\* add has returned false for a type registered with the hashmap kind whose
\* store holds a row
C19_Witness ==
    /\ wcall.op = "add"
    /\ wret.tag = "returned"
    /\ wret.val = FALSE
    /\ wcall.name \in DOMAIN world.map
    /\ world.map[wcall.name].kind = "Map"
    /\ len(world.map[wcall.name]) = 1

\* C20: get::<T>() and get_mut::<T>() return a store exactly when T has been
\* registered, with either kind, and None for a type never registered;
\* registering T does not change what they return for any other type.
C20_GetFindsRegisteredStores ==
    [][\A T \in Types :
          LET registers == /\ wcall'.op \in AddOps
                           /\ wcall'.name = T
                           /\ wret'.tag = "returned"
                           /\ wret'.val = TRUE
          IN
          /\ (World_get(world', T) # None)
                <=> (World_get(world, T) # None \/ registers)
          /\ (World_get_mut(world', T) # None)
                <=> (World_get_mut(world, T) # None \/ registers)
          /\ World_get(world', T) = World_get_mut(world', T)
          /\ (wcall'.op \in AddOps /\ wcall'.name # T)
                => World_get(world', T) = World_get(world, T)
          /\ (wcall'.op = "get" /\ wcall'.name = T)
                => /\ wret'.tag = "returned"
                   /\ wret'.val = World_get(world, T)
                   /\ world' = world]_vars

\* get has returned the hashmap-kind store of one type while the other type
\* was never registered
C20_Witness ==
    /\ wcall.op = "get"
    /\ wret.tag = "returned"
    /\ wret.val # None
    /\ \A found \in wret.val : found.kind = "Map" /\ len(found) = 1
    /\ DOMAIN world.map = {wcall.name}

\* the calls that fetch several stores at once
FetchOps == {"fetch", "fetch_set"}

\* C21: a fetch of two or more pairwise distinct types of which at least one
\* is not registered returns None as a whole, never a tuple with some of the
\* views, and leaves the World as it was.
C21_FetchAllOrNothing ==
    [][(/\ wcall'.op \in FetchOps
        /\ ~Overlapping(wcall'.name)
        /\ \E i \in DOMAIN wcall'.name : wcall'.name[i] \notin DOMAIN world.map)
          => /\ wret'.tag = "returned"
             /\ wret'.val = None
             /\ world' = world]_vars

\* a fetch of three types, the first and the last registered with the sparse
\* kind and the middle one never registered, has returned None
C21_Witness ==
    /\ wcall.op = "fetch"
    /\ Len(wcall.name) = 3
    /\ wcall.name[2] = "Health"
    /\ DOMAIN world.map = {wcall.name[1], wcall.name[3]}
    /\ \A T \in DOMAIN world.map : world.map[T].kind = "Vec"
    /\ Cardinality(DOMAIN world.map) = 2
    /\ wret.tag = "returned"
    /\ wret.val = None

\* C22: a fetch of pairwise distinct types that are all registered, with
\* whichever kind, returns the store of every one of them, and a write through
\* one of the views changes the store of that type only.
C22_FetchYieldsEveryRegisteredStore ==
    [][(/\ wcall'.op \in FetchOps
        /\ ~Overlapping(wcall'.name)
        /\ \A i \in DOMAIN wcall'.name : wcall'.name[i] \in DOMAIN world.map)
          => /\ wret'.tag = "returned"
             /\ wret'.val # None
             /\ \A views \in wret'.val : \A i \in DOMAIN wcall'.name :
                    views[i] = world.map[wcall'.name[i]]
             /\ \A T \in DOMAIN world.map :
                    (wcall'.op = "fetch" \/ T # wcall'.name[wcall'.view])
                        => world'.map[T] = world.map[T]]_vars

\* C23: a fetch whose type list names one type twice is rejected with a panic
\* before any view is returned, so no two views of one store are ever live
\* together; the World is as it was.
C23_DuplicateTypeRejected ==
    [][(wcall'.op \in FetchOps /\ Overlapping(wcall'.name))
          => /\ wret'.tag = "panicked"
             /\ wret'.val = None
             /\ world' = world]_vars

\* a fetch naming a registered type twice has panicked
C23_Witness ==
    /\ wcall.op = "fetch"
    /\ wcall.name[1] = wcall.name[2]
    /\ wcall.name[1] \in DOMAIN world.map
    /\ wret.tag = "panicked"

\* the entities carrying tag t in world w
Carriers(w, t) == {e \in Entities \cup Ids : EntityTags_has_tag(w.tags, t, e)}

C25_WantOneNeverFails ==
    [][wcall'.op = "want_one" =>
          \A carriers \in {Carriers(world, wcall'.name)} :
             /\ world' = world
             /\ wret'.tag = "returned"
             /\ \A e \in Entities \cup Ids :
                   wret'.val = Some(e) <=> carriers = {e}
             /\ wret'.val = None <=> Cardinality(carriers) # 1
             /\ \A e \in wret'.val :
                   EntityTags_expect_one(world.tags, wcall'.name)
                      = Return(world.tags, e)]_vars

\* want_one has returned the only carrier of its tag after an entity that
\* carried the tag as well was despawned
C25_Witness ==
    /\ wcall.op = "want_one"
    /\ wret.tag = "returned"
    /\ wret.val # None
    /\ Carriers(world, wcall.name) = wret.val
    /\ world.dead_entities # {}
    /\ wret.val \subseteq world.entities

\* the threads holding a ResourceMutHandle of type T
Writers(T) == {th \in Threads : handles[th][T].writes > 0}

\* the threads holding any handle of type T
Holders(T) == {th \in Threads : handles[th][T] # NoHandles}

\* C26: in every interleaving of get, get_mut and drops, a ResourceMutHandle
\* of a type is the only handle of that type that is outstanding: no second
\* write handle and no read handle exists with it, in any thread. (Read
\* handles of one type held together, and a write handle of another type held
\* at the same time, are the state of C26_Witness.)
C26_WriterExcludesOthers ==
    \A T \in ResourceTypes : \A th \in Writers(T) :
        /\ handles[th][T] = [reads |-> 0, writes |-> 1]
        /\ Holders(T) = {th}

\* every thread holds a read handle of one type while one of them holds the
\* write handle of another type
C26_Witness ==
    \E T, U \in ResourceTypes :
        /\ T # U
        /\ \A th \in Threads : handles[th][T].reads = MaxReads
        /\ Writers(U) # {}

\* C27: get and get_mut never block: each is always able to return, get with
\* None exactly when the type is not stored or a write handle of it is
\* outstanding, get_mut with None exactly when the type is not stored or any
\* handle of it is outstanding, the caller's own handles included.
C27_GetNeverBlocks ==
    /\ [](\A th \in Threads, T \in ResourceTypes :
              /\ ENABLED ResGetMut(th, T)
              /\ handles[th][T].reads < MaxReads => ENABLED ResGet(th, T))
    /\ [][/\ rcall'.op = "get"
             => (rret' = None
                    <=> (rcall'.name \notin DOMAIN resources
                            \/ Writers(rcall'.name) # {}))
          /\ rcall'.op = "get_mut"
             => (rret' = None
                    <=> (rcall'.name \notin DOMAIN resources
                            \/ Holders(rcall'.name) # {}))]_vars

\* a thread holding the only handle of a stored type, a read handle, has
\* called get_mut for that type and was given None
C27_Witness ==
    /\ rcall.op = "get_mut"
    /\ rret = None
    /\ rcall.name \in DOMAIN resources
    /\ Holders(rcall.name) = {rcall.thread}
    /\ handles[rcall.thread][rcall.name].reads > 0

\* C28: combine_key is unique per ordered pair: for a, b and every c, d whose
\* arithmetic does not overflow, combine_key(a, b) = combine_key(c, d) exactly
\* when a = c and b = d; in particular combine_key(a, b) differs from
\* combine_key(b, a) when a # b.
C28_CombineKeyInjective ==
    (kcall.op = "combine_key" /\ InRange(kcall.a, kcall.b)) =>
        /\ kret.tag = "returned"
        /\ \A c, d \in Usizes :
              InRange(c, d) =>
                 (combine_key(c, d, kcall.debug) = Return(c, kret.val)
                     <=> (c = kcall.a /\ d = kcall.b))
        /\ (kcall.a # kcall.b /\ InRange(kcall.b, kcall.a))
              => combine_key(kcall.b, kcall.a, kcall.debug).ret # kret.val

\* combine_key(2, 3) has returned 11, and combine_key(3, 2) is in range too
C28_Witness ==
    /\ kcall.op = "combine_key"
    /\ kcall.a = 2
    /\ kcall.b = 3
    /\ InRange(kcall.b, kcall.a)
    /\ kret.tag = "returned"
    /\ kret.val = 11

\* C29 as stated: for all entities a and b, with k = combine_key(a, b), the
\* key combine_key(Entity(k), a) differs from k.
C29_RePairedKeyDiffers ==
    [][kcall'.op = "re_pair"
          => (kret'.tag = "returned" => kret'.val # kret.val)]_vars

\* C29: for entities a and b that are not both Entity(0), and with neither
\* computation overflowing usize, k = combine_key(a, b) is returned and
\* combine_key(Entity(k), a) returns a key different from k.
C29_RePairedKeyDiffersInRange ==
    [][(/\ kcall'.op = "re_pair"
        /\ kcall.a # 0 \/ kcall.b # 0
        /\ InRange(kcall.a, kcall.b)
        /\ InRange(kcall'.a, kcall'.b))
          => /\ kcall'.a = kret.val
             /\ kcall'.b = kcall.a
             /\ kret'.tag = "returned"
             /\ kret'.val # kret.val]_vars

\* the case of test_key_pairing: k = combine_key(1, 2) = 5 was paired with 1
\* again and gave 31
C29_Witness ==
    /\ kcall.op = "re_pair"
    /\ kcall.a = 5
    /\ kcall.b = 1
    /\ kret.tag = "returned"
    /\ kret.val = 31

\* C30 as stated: registering a component type a second time is fatal: the
\* second add / add_with_storage stops the execution.
C30_DoubleRegistrationFatal ==
    [][(wcall'.op \in AddOps /\ wcall'.name \in DOMAIN world.map)
          => wret'.tag = "panicked"]_vars

\* C30: registering a component type a second time is not fatal: the second
\* add / add_with_storage returns false to its caller, and after a
\* registration call, a repeated one included, the execution goes on: the
\* World accepts the next call.
C30_DoubleRegistrationReturnsFalse ==
    /\ [][(wcall'.op \in AddOps /\ wcall'.name \in DOMAIN world.map)
             => wret' = Returned(FALSE, WorldHad(wcall', world))]_vars
    /\ [](wcall.op \in AddOps
             => /\ wret.tag = "returned"
                /\ \A T \in Types : ENABLED WorldGet(T))

\* add_with_storage has returned false for a type registered with the sparse
\* kind whose store holds a row
C30_Witness ==
    /\ wcall.op = "add_with_storage"
    /\ wret.tag = "returned"
    /\ wret.val = FALSE
    /\ wcall.name \in DOMAIN world.map
    /\ world.map[wcall.name].kind = "Vec"
    /\ len(world.map[wcall.name]) = 1

\* C31: in every state reached by spawn and despawn, failed despawns included,
\* the live set and the dead set are disjoint and together are exactly
\* {0, .., next_entity_id - 1}; next_entity_id never decreases.
C31_AllocatorInvariant ==
    /\ [](/\ world.entities \cap world.dead_entities = {}
          /\ world.entities \cup world.dead_entities
                = 0..(world.next_entity_id - 1))
    /\ [][world'.next_entity_id >= world.next_entity_id]_vars

\* a despawn of a non-live entity has panicked with both sets non-empty
C31_Witness ==
    /\ wcall.op = "despawn"
    /\ wret.tag = "panicked"
    /\ world.entities # {}
    /\ world.dead_entities # {}
    /\ world.next_entity_id = 2

\* C32: in every reachable Storage state len() is the number of entities for
\* which has returns true, and is added.len() - removed.len().
C32_LenCountsPresentEntities ==
    \A k \in Running :
        /\ len(store[k]) = Cardinality({e \in Entities : HasTrue(store[k], e)})
        /\ len(store[k]) = Len(store[k].added) - Len(store[k].removed)

\* a storage holding one entity after two adds and one removal
C32_Witness ==
    \E k \in Running :
        /\ len(store[k]) = 1
        /\ Len(store[k].added) = 2
        /\ Len(store[k].removed) = 1
        /\ \E e \in Entities : HasTrue(store[k], e)

\* C33: in the runs that write components for live entities only, the entity
\* that spawn returns has no value in any registered component store at the
\* moment spawn returns, also when its integer is a recycled one.
C33_SpawnedEntityHasNoComponents ==
    [][(wcall'.op = "spawn" /\ wret'.tag = "returned")
          => \A T \in DOMAIN world'.map :
                ~HasTrue(world'.map[T], wret'.val)]_vars

\* the calls that change one tag of one entity
TagOps == {"add_tag", "remove_tag"}

\* C34: add_tag(t, e) and remove_tag(t, e) return, and change has_tag for the
\* pair (t, e) only; add_tag of a pair that is present and remove_tag of a
\* pair that is not (a tag never used included) change nothing; count(t) is
\* always the number of entities e with has_tag(t, e).
C34_TagFrame ==
    /\ [](\A t \in TagNames :
              EntityTags_count(world.tags, t) = Cardinality(Carriers(world, t)))
    /\ [][wcall'.op \in TagOps =>
             /\ wret'.tag = "returned"
             /\ \A t \in TagNames, e \in Entities \cup Ids :
                   (t # wcall'.name \/ e # wcall'.entity)
                      => EntityTags_has_tag(world'.tags, t, e)
                            = EntityTags_has_tag(world.tags, t, e)
             /\ EntityTags_has_tag(world'.tags, wcall'.name, wcall'.entity)
                   = (wcall'.op = "add_tag")
             /\ (EntityTags_has_tag(world.tags, wcall'.name, wcall'.entity)
                    = (wcall'.op = "add_tag"))
                   => world' = world]_vars

\* remove_tag has returned for a tag that was never used, while the other tag
\* is carried by two entities
C34_Witness ==
    /\ wcall.op = "remove_tag"
    /\ wret.tag = "returned"
    /\ wcall.name \notin DOMAIN world.tags
    /\ \E t \in TagNames : Cardinality(Carriers(world, t)) = 2
    /\ \A t \in TagNames : EntityTags_has_tag(world.tags, t, wcall.entity)
                              = (t # wcall.name)

====
